---- MODULE Spec2Model ----
(***************************************************************************)
(* react-keydown: the map-based listeners module (document click/keydown  *)
(* listeners, focused-instance pointer, deferred activation on mount) and *)
(* the array-based store (activation stack, uuid-keyed handler list).     *)
(***************************************************************************)
EXTENDS Naturals, Integers, Sequences, FiniteSets, TLC

(***************************************************************************)
(* JavaScript values                                                       *)
(***************************************************************************)
Null == "null"
Undefined == "undefined"
\* falsy object references: `instance ? ... : ...`, `if ( focusedInstance )`
IsNone(v) == v \in {Null, Undefined}

(***************************************************************************)
(* The environment: component classes, their instances and the DOM.       *)
(***************************************************************************)
\* decorated component classes (class prototypes, the keys of _handlers)
Classes == {"A", "B"}
\* component instances; x1 (class A) renders a subtree that holds y1 (class B);
\* z1 (class A) renders nothing (React.findDOMNode( z1 ) is null)
Instances == {"x1", "y1", "z1"}
\* instance.constructor.prototype
constructor(i) == IF i \in {"x1", "z1"} THEN "A" ELSE "B"
\* focusable DOM elements, each rendered by one instance, and the body
Body == "body"
Elements == {"e1", "ey", Body}
owner(e) == CASE e = "e1" -> "x1" [] e = "ey" -> "y1" [] OTHER -> Null
\* the elements node.contains( e ) is true of, node = React.findDOMNode( i )
Subtree(i) ==
  CASE i = "x1" -> {"e1", "ey"}
    [] i = "y1" -> {"ey"}
    [] OTHER -> {}
\* React.findDOMNode( i ) is null for a component that renders nothing
HasNode(i) == i # "z1"
\* tag names a keydown target can carry
TagNames == {"INPUT", "SELECT", "TEXTAREA", "DIV"}
\* key codes of the key specification tokens
KeyCode == [k \in {"a", "b"} |-> IF k = "a" THEN 65 ELSE 66]
\* key specifications: a list of combinations, each a list of tokens
\* ('a', 'ctrl+a', [ 'a', 'b' ]); NoKeys is an absent `keys`
NoKeys == <<>>
\* the setBinding calls of the decorated classes
BindingArgs ==
  { [keys |-> <<<<"a">>>>, fn |-> "f", target |-> "A"],
    [keys |-> <<<<"ctrl", "a">>, <<"b">>>>, fn |-> "g", target |-> "A"],
    [keys |-> NoKeys, fn |-> "g", target |-> "A"],
    [keys |-> <<<<"a">>>>, fn |-> "f", target |-> "B"] }
\* keydown events: every key and modifier on a plain element, one on each text-entry element
Events ==
  [which : {65, 66}, mods : {{}, {"ctrl"}}, tagName : {"DIV"}]
    \cup [which : {65}, mods : {{}}, tagName : TagNames]
NoEvent == [which |-> 0, mods |-> {}, tagName |-> ""]

(***************************************************************************)
(* Bounds                                                                  *)
(***************************************************************************)
\* setBinding calls on the listeners module
MaxBindings == 2
\* length of the store's handler array
MaxHandlers == 2
\* length of the store's activation stack
MaxStack == 3

(***************************************************************************)
(* State                                                                   *)
(***************************************************************************)
VARIABLES
  _handlers,         \* Map class -> { bindings, instances }, in insertion order
  _focusedInstance,  \* the instance that receives key presses, or null/undefined
  _clicksBound,      \* flag: click listener bound to document
  _keysBound,        \* flag: keydown listener bound to document
  docClick,          \* addEventListener( 'click' ) calls not yet removed
  docKeydown,        \* addEventListener( 'keydown' ) calls not yet removed
  timers,            \* pending setTimeout( () => _activate( instance ), 0 ), FIFO
  onfocus,           \* element.onfocus: the instances its wrappers activate, outermost first
  mounted,           \* lifecycle of each instance: "new", "mounted", "gone"
  last,              \* the last operation: op, threw, click target, keydown event, invocations,
                     \* and for a timer callback the instance a click focused just before it
  unmountedFocused,  \* the instance whose onUnmount cleared the focused pointer, until the
                     \* next click, focus event, onMount or activation of another instance
  mountOrder         \* the instances in the order of their onMount calls

lvars == <<_handlers, _focusedInstance, _clicksBound, _keysBound, docClick, docKeydown,
           timers, onfocus, mounted, last, unmountedFocused, mountOrder>>

\* the array-based store
VARIABLES
  _handlers2,        \* array of { targetUuid, keySets, fn }
  _instances2,       \* array of instances, ordered by activation
  uuidOf,            \* target.__reactKeydownUUID of each class, 0 while it has none
  uuidCounter,       \* the next identifier uuid() generates
  slast,             \* the last store operation: op, argument, threw
  deactivated,       \* the last Store.activate was a deactivating one
  registered         \* the setBinding calls since the store was last reset

svars == <<_handlers2, _instances2, uuidOf, uuidCounter, slast, deactivated, registered>>

vars == <<lvars, svars>>

(***************************************************************************)
(* Key matcher / parser (lib/parse_keys, lib/match_keys)                   *)
(***************************************************************************)
NullKeySet == [null |-> TRUE, key |-> 0, modifiers |-> {}]

\* one combination: the last token is the key, the others are modifiers
parseCombo(c) ==
  [null |-> FALSE, key |-> KeyCode[c[Len(c)]], modifiers |-> {c[j] : j \in 1..(Len(c) - 1)}]

\* a key specification becomes a list of key descriptors
parseKeys(keys) == [i \in 1..Len(keys) |-> parseCombo(keys[i])]

\* the event's key and modifier flags satisfy the descriptor; null matches any key
matchKeys(keySet, event) ==
  \/ keySet.null
  \/ /\ keySet.key = event.which
     /\ keySet.modifiers = event.mods

(***************************************************************************)
(* listeners: private helpers                                              *)
(***************************************************************************)
\* position of a class in _handlers, 0 when _handlers.get( target ) is undefined
HandlerIndex(hs, target) ==
  IF \E i \in 1..Len(hs) : hs[i].target = target
  THEN CHOOSE i \in 1..Len(hs) : hs[i].target = target
  ELSE 0

InSeq(s, v) == \E i \in 1..Len(s) : s[i] = v
Without(s, v) == SelectSeq(s, LAMBDA w : w # v)

\* Set.prototype.add / delete on an insertion-ordered set
SetAdd(s, v) == IF InSeq(s, v) THEN s ELSE Append(s, v)
SetDelete(s, v) == Without(s, v)

\* an element is in the document while the instance that renders it is mounted
Present(e) == IF e = Body THEN TRUE ELSE mounted[owner(e)] = "mounted"

\* _findFocused: throws when the instance has no DOM node
_findFocused(target, instance) ==
  IF ~HasNode(instance)
  THEN [threw |-> TRUE, val |-> FALSE]
  ELSE [threw |-> FALSE, val |-> target \in Subtree(instance)]

\* [ ...instances ].find( findFocused )
RECURSIVE find(_, _)
find(insts, target) ==
  IF insts = <<>> THEN [threw |-> FALSE, val |-> Undefined]
  ELSE LET r == _findFocused(target, Head(insts)) IN
       IF r.threw THEN [threw |-> TRUE, val |-> Undefined]
       ELSE IF r.val THEN [threw |-> FALSE, val |-> Head(insts)]
       ELSE find(Tail(insts), target)

\* the loop of _handleClick over _handlers; acc is focusedInstance so far
RECURSIVE scanHandlers(_, _, _)
scanHandlers(hs, target, acc) ==
  IF hs = <<>> THEN [threw |-> FALSE, val |-> acc]
  ELSE LET r == find(Head(hs).instances, target) IN
       IF r.threw THEN r
       ELSE IF ~IsNone(r.val) THEN r
       ELSE scanHandlers(Tail(hs), target, r.val)

\* the keydown side of the state, as _activate reads and writes it
KeySide == [focused |-> _focusedInstance, keysBound |-> _keysBound, n |-> docKeydown]

_bindKeys(k) ==
  IF ~k.keysBound THEN [k EXCEPT !.keysBound = TRUE, !.n = @ + 1] ELSE k

_unbindKeys(k) ==
  IF k.keysBound THEN [k EXCEPT !.keysBound = FALSE, !.n = IF @ > 0 THEN @ - 1 ELSE 0] ELSE k

\* an activation that leaves an existing focus alone
activateIfNone(k, instance) ==
  IF ~IsNone(k.focused) /\ ~IsNone(instance) THEN k
  ELSE LET k1 == [k EXCEPT !.focused = instance] IN
       IF ~IsNone(instance) THEN _bindKeys(k1) ELSE _unbindKeys(k1)

\* an activation that never removes the keydown listener
activateNoUnbind(k, instance) ==
  LET k1 == [k EXCEPT !.focused = instance] IN
  IF ~IsNone(instance) THEN _bindKeys(k1) ELSE k1

\* an activation that ignores instances no handler tracks
activateTrackedOnly(k, instance) ==
  IF ~IsNone(instance)
     /\ ~(\E h \in 1..Len(_handlers) : InSeq(_handlers[h].instances, instance))
  THEN k
  ELSE LET k1 == [k EXCEPT !.focused = instance] IN
       IF ~IsNone(instance) THEN _bindKeys(k1) ELSE _unbindKeys(k1)

_activate(k, instance) ==
  LET k1 == [k EXCEPT !.focused = instance] IN
  IF ~IsNone(instance) THEN _bindKeys(k1) ELSE _unbindKeys(k1)

SetKeySide(k) ==
  /\ _focusedInstance' = k.focused
  /\ _keysBound' = k.keysBound
  /\ docKeydown' = k.n

\* wrappers that call the handler they found installed before they activate
RECURSIVE runFocusPrevFirst(_, _)
runFocusPrevFirst(k, chain) ==
  IF chain = <<>> THEN k ELSE _activate(runFocusPrevFirst(k, Tail(chain)), Head(chain))

\* the handler element.onfocus runs: each wrapper activates its instance, then
\* calls the handler it found installed
RECURSIVE runFocus(_, _)
runFocus(k, chain) ==
  IF chain = <<>> THEN k ELSE runFocus(_activate(k, Head(chain)), Tail(chain))

\* a text-entry test that forgets TEXTAREA
shouldConsiderNoTextarea(event) == event.tagName \notin {"INPUT", "SELECT"}

_shouldConsider(event) == event.tagName \notin {"INPUT", "SELECT", "TEXTAREA"}

\* bindings.forEach: every entry whose keySets is falsy or has a matching key set
RECURSIVE dispatchFrom(_, _, _, _)
dispatchFrom(bindings, i, receiver, event) ==
  IF i > Len(bindings) THEN <<>>
  ELSE LET b == bindings[i]
           hit == \E j \in 1..Len(b.keySets) : matchKeys(b.keySets[j], event)
       IN (IF hit THEN <<[fn |-> b.fn, receiver |-> receiver, binding |-> i]>> ELSE <<>>)
          \o dispatchFrom(bindings, i + 1, receiver, event)

\* a dispatch that stops at the first matching entry
dispatchFirstOnly(bindings, receiver, event) ==
  LET all == dispatchFrom(bindings, 1, receiver, event)
  IN IF all = <<>> THEN <<>> ELSE <<Head(all)>>

dispatch(bindings, receiver, event) == dispatchFrom(bindings, 1, receiver, event)

NoArgs == [keys |-> NoKeys, fn |-> Null, target |-> Null]

Rec(op, threw, target, event, invoked) ==
  [op |-> op, threw |-> threw, target |-> target, event |-> event, invoked |-> invoked,
   args |-> NoArgs, clicked |-> Null]

NumBindings ==
  LET RECURSIVE sum(_)
      sum(hs) == IF hs = <<>> THEN 0 ELSE Len(Head(hs).bindings) + sum(Tail(hs))
  IN sum(_handlers)

Tracked == {i \in Instances : \E h \in 1..Len(_handlers) : InSeq(_handlers[h].instances, i)}

(***************************************************************************)
(* listeners: public operations and document event handlers               *)
(***************************************************************************)
\* a registration that stores no key set at all when keys are absent
setBindingEmptyKeySets(keys, fn, target) ==
  /\ UNCHANGED mountOrder
  /\ NumBindings < MaxBindings
  /\ LET keySets == IF keys = NoKeys THEN <<>> ELSE parseKeys(keys)
         hs == IF HandlerIndex(_handlers, target) = 0
               THEN Append(_handlers, [target |-> target, bindings |-> <<>>, instances |-> <<>>])
               ELSE _handlers
         h == HandlerIndex(hs, target)
     IN _handlers' = [hs EXCEPT ![h].bindings = Append(@, [keySets |-> keySets, fn |-> fn])]
  /\ last' = [Rec("setBinding", FALSE, Null, NoEvent, <<>>)
                 EXCEPT !.args = [keys |-> keys, fn |-> fn, target |-> target]]
  /\ UNCHANGED <<_focusedInstance, _clicksBound, _keysBound, docClick, docKeydown,
                 timers, onfocus, mounted, unmountedFocused>>

setBinding(keys, fn, target) ==
  /\ UNCHANGED mountOrder
  /\ NumBindings < MaxBindings
  /\ LET keySets == IF keys = NoKeys THEN <<NullKeySet>> ELSE parseKeys(keys)
         hs == IF HandlerIndex(_handlers, target) = 0
               THEN Append(_handlers, [target |-> target, bindings |-> <<>>, instances |-> <<>>])
               ELSE _handlers
         h == HandlerIndex(hs, target)
     IN _handlers' = [hs EXCEPT ![h].bindings = Append(@, [keySets |-> keySets, fn |-> fn])]
  /\ last' = [Rec("setBinding", FALSE, Null, NoEvent, <<>>)
                 EXCEPT !.args = [keys |-> keys, fn |-> fn, target |-> target]]
  /\ UNCHANGED <<_focusedInstance, _clicksBound, _keysBound, docClick, docKeydown,
                 timers, onfocus, mounted, unmountedFocused>>

\* _bindInputs: wrap the onfocus of every focusable element under the node
_bindInputs(instance) ==
  IF ~HasNode(instance) THEN onfocus
  ELSE [e \in Elements |->
          IF e \in Subtree(instance) /\ (owner(e) = instance \/ Present(e))
          THEN <<instance>> \o onfocus[e]
          ELSE onfocus[e]]

onMount(instance) ==
  /\ mounted[instance] = "new"
  /\ mounted' = [mounted EXCEPT ![instance] = "mounted"]
  /\ mountOrder' = Append(mountOrder, instance)
  \* _bindClicks
  /\ _clicksBound' = TRUE
  /\ docClick' = IF ~_clicksBound THEN docClick + 1 ELSE docClick
  /\ onfocus' = _bindInputs(instance)
  /\ LET h == HandlerIndex(_handlers, constructor(instance)) IN
     IF h = 0
     THEN \* _addInstance: getBinding( ... ) is undefined, reading .instances throws
          /\ UNCHANGED <<_handlers, timers>>
          /\ last' = Rec("onMount", TRUE, Null, NoEvent, <<>>)
     ELSE /\ _handlers' = [_handlers EXCEPT ![h].instances = SetAdd(@, instance)]
          /\ timers' = Append(timers, instance)
          /\ last' = Rec("onMount", FALSE, Null, NoEvent, <<>>)
  /\ unmountedFocused' = Null
  /\ UNCHANGED <<_focusedInstance, _keysBound, docKeydown>>

onUnmount(instance) ==
  /\ UNCHANGED mountOrder
  /\ mounted[instance] = "mounted"
  /\ mounted' = [mounted EXCEPT ![instance] = "gone"]
  /\ LET h == HandlerIndex(_handlers, constructor(instance)) IN
     IF h = 0
     THEN \* _deleteInstance throws
          /\ UNCHANGED <<_handlers, _focusedInstance, _clicksBound, _keysBound,
                         docClick, docKeydown, unmountedFocused>>
          /\ last' = Rec("onUnmount", TRUE, Null, NoEvent, <<>>)
     ELSE LET hs == [_handlers EXCEPT ![h].instances = SetDelete(@, instance)]
              unbind == _clicksBound /\ ~(\E i \in 1..Len(hs) : Len(hs[i].instances) > 0)
          IN /\ _handlers' = hs
             \* _unbindClicks
             /\ _clicksBound' = IF unbind THEN FALSE ELSE _clicksBound
             /\ docClick' = IF unbind /\ docClick > 0 THEN docClick - 1 ELSE docClick
             /\ IF _focusedInstance = instance
                THEN /\ SetKeySide(_activate(KeySide, Null))
                     /\ unmountedFocused' = instance
                ELSE UNCHANGED <<_focusedInstance, _keysBound, docKeydown, unmountedFocused>>
             /\ last' = Rec("onUnmount", FALSE, Null, NoEvent, <<>>)
  /\ UNCHANGED <<timers, onfocus>>

\* a deferred callback that is dropped when its instance has unmounted
TimerFireUnlessGone ==
  /\ UNCHANGED mountOrder
  /\ timers # <<>>
  /\ IF mounted[Head(timers)] = "gone"
     THEN UNCHANGED <<_focusedInstance, _keysBound, docKeydown>>
     ELSE SetKeySide(_activate(KeySide, Head(timers)))
  /\ timers' = Tail(timers)
  /\ unmountedFocused' = IF Head(timers) = unmountedFocused THEN unmountedFocused ELSE Null
  /\ last' = [Rec("timer", FALSE, Null, NoEvent, <<>>)
                EXCEPT !.clicked = IF last.op = "click" /\ ~last.threw
                                   THEN _focusedInstance ELSE Null]
  /\ UNCHANGED <<_handlers, _clicksBound, docClick, onfocus, mounted>>

\* the deferred callback of onMount runs on a later turn of the event loop
TimerFire ==
  /\ UNCHANGED mountOrder
  /\ timers # <<>>
  /\ SetKeySide(_activate(KeySide, Head(timers)))
  /\ timers' = Tail(timers)
  /\ unmountedFocused' = IF Head(timers) = unmountedFocused THEN unmountedFocused ELSE Null
  /\ last' = [Rec("timer", FALSE, Null, NoEvent, <<>>)
                EXCEPT !.clicked = IF last.op = "click" /\ ~last.threw
                                   THEN _focusedInstance ELSE Null]
  /\ UNCHANGED <<_handlers, _clicksBound, docClick, onfocus, mounted>>

\* a click reaches the document while the click listener is attached
_handleClick(target) ==
  /\ UNCHANGED mountOrder
  /\ docClick > 0
  /\ Present(target)
  /\ LET r == scanHandlers(_handlers, target, Null) IN
     IF r.threw
     THEN /\ UNCHANGED <<_focusedInstance, _keysBound, docKeydown>>
          /\ last' = Rec("click", TRUE, target, NoEvent, <<>>)
     ELSE /\ SetKeySide(_activate(KeySide, r.val))
          /\ last' = Rec("click", FALSE, target, NoEvent, <<>>)
  /\ unmountedFocused' = Null
  /\ UNCHANGED <<_handlers, _clicksBound, docClick, timers, onfocus, mounted>>

\* a focus event on an element whose onfocus _bindInputs has wrapped
Focus(element) ==
  /\ UNCHANGED mountOrder
  /\ Present(element)
  /\ onfocus[element] # <<>>
  /\ SetKeySide(runFocus(KeySide, onfocus[element]))
  /\ unmountedFocused' = Null
  /\ last' = Rec("focus", FALSE, element, NoEvent, <<>>)
  /\ UNCHANGED <<_handlers, _clicksBound, docClick, timers, onfocus, mounted>>

\* a keydown handler that dispatches on the first registered class
handleKeyDownFirstClass(event) ==
  /\ UNCHANGED mountOrder
  /\ docKeydown > 0
  /\ IF _shouldConsider(event)
     THEN LET h == IF IsNone(_focusedInstance) \/ _handlers = <<>> THEN 0 ELSE 1
          IN IF h = 0
             THEN last' = Rec("keydown", TRUE, Null, event, <<>>)
             ELSE last' = Rec("keydown", FALSE, Null, event,
                              dispatch(_handlers[h].bindings, _focusedInstance, event))
     ELSE last' = Rec("keydown", FALSE, Null, event, <<>>)
  /\ UNCHANGED <<_handlers, _focusedInstance, _clicksBound, _keysBound, docClick,
                 docKeydown, timers, onfocus, mounted, unmountedFocused>>

\* a keydown reaches the document while the keydown listener is attached
_handleKeyDown(event) ==
  /\ UNCHANGED mountOrder
  /\ docKeydown > 0
  /\ IF _shouldConsider(event)
     THEN LET h == IF IsNone(_focusedInstance) THEN 0
                   ELSE HandlerIndex(_handlers, constructor(_focusedInstance))
          IN IF h = 0
             THEN last' = Rec("keydown", TRUE, Null, event, <<>>)
             ELSE last' = Rec("keydown", FALSE, Null, event,
                              dispatch(_handlers[h].bindings, _focusedInstance, event))
     ELSE last' = Rec("keydown", FALSE, Null, event, <<>>)
  /\ UNCHANGED <<_handlers, _focusedInstance, _clicksBound, _keysBound, docClick,
                 docKeydown, timers, onfocus, mounted, unmountedFocused>>

LInit ==
  /\ _handlers = <<>>
  /\ _focusedInstance = Null
  /\ _clicksBound = FALSE
  /\ _keysBound = FALSE
  /\ docClick = 0
  /\ docKeydown = 0
  /\ timers = <<>>
  /\ onfocus = [e \in Elements |-> <<>>]
  /\ mounted = [i \in Instances |-> "new"]
  /\ last = Rec("init", FALSE, Null, NoEvent, <<>>)
  /\ unmountedFocused = Null
  /\ mountOrder = <<>>

(***************************************************************************)
(* store: lib/keys, lib/uuid                                               *)
(***************************************************************************)
\* allKeys() is the any-key sentinel; allKeys( keySets ) tells whether keySets is it
ALL_KEYS == [all |-> TRUE, sets |-> <<>>]
allKeys(keySets) == keySets.all

(***************************************************************************)
(* store: operations                                                       *)
(***************************************************************************)
SRec(op, arg, threw) == [op |-> op, arg |-> arg, threw |-> threw, args |-> NoArgs]
NoArg == [isArray |-> FALSE, val |-> Null, list |-> <<>>]
One(x) == [isArray |-> FALSE, val |-> x, list |-> <<>>]
List(l) == [isArray |-> TRUE, val |-> Null, list |-> l]

\* [].concat( instances )
concat(arg) == IF arg.isArray THEN arg.list ELSE <<arg.val>>

\* let i = length; while (i--) { if ( _instances2[i] == instance ) _instances2.pop(); }
RECURSIVE popScan(_, _, _)
popScan(stack, i, instance) ==
  IF i = 0 THEN stack
  ELSE IF i <= Len(stack) /\ stack[i] = instance
       THEN popScan(SubSeq(stack, 1, Len(stack) - 1), i - 1, instance)
       ELSE popScan(stack, i - 1, instance)

activateOne(stack, instance) == Append(popScan(stack, Len(stack), instance), instance)

RECURSIVE activateAll(_, _)
activateAll(stack, instancesArray) ==
  IF instancesArray = <<>> THEN stack
  ELSE activateAll(activateOne(stack, Head(instancesArray)), Tail(instancesArray))

Store_activate(arg) ==
  /\ Len(_instances2) + Len(concat(arg)) <= MaxStack
  /\ _instances2' = IF Len(concat(arg)) = 0 THEN _instances2
                    ELSE activateAll(_instances2, concat(arg))
  /\ deactivated' = (concat(arg) = <<>> \/ arg = One(Null))
  /\ slast' = SRec("activate", arg, FALSE)
  /\ UNCHANGED <<_handlers2, uuidOf, uuidCounter, registered>>

\* `_instances.delete( target )` reads a binding the module never declares:
\* a ReferenceError, before the loop over _instances2 is reached
Store_deleteInstance(target) ==
  /\ slast' = SRec("deleteInstance", One(target), TRUE)
  /\ UNCHANGED <<_handlers2, _instances2, uuidOf, uuidCounter, deactivated, registered>>

\* the __reactKeydownUUID an object carries: its own (a class) or its class's
UuidOfObj(obj) == IF obj \in Classes THEN uuidOf[obj] ELSE uuidOf[constructor(obj)]

NullResult == [threw |-> FALSE, kind |-> "null", val |-> <<>>]
UndefinedResult == [threw |-> FALSE, kind |-> "undefined", val |-> <<>>]
ThrowResult == [threw |-> TRUE, kind |-> "throw", val |-> <<>>]

RECURSIVE scanHandlers2(_, _, _)
scanHandlers2(handlers, i, id) ==
  IF i = 0 THEN UndefinedResult
  ELSE IF handlers[i].targetUuid = id
       THEN [threw |-> FALSE, kind |-> "value",
             val |-> <<[keySets |-> handlers[i].keySets, fn |-> handlers[i].fn]>>]
       ELSE scanHandlers2(handlers, i - 1, id)

\* a lookup that returns the oldest handler of the identifier, not the newest
RECURSIVE scanHandlersUp(_, _, _)
scanHandlersUp(handlers, i, id) ==
  IF i > Len(handlers) THEN UndefinedResult
  ELSE IF handlers[i].targetUuid = id
       THEN [threw |-> FALSE, kind |-> "value",
             val |-> <<[keySets |-> handlers[i].keySets, fn |-> handlers[i].fn]>>]
       ELSE scanHandlersUp(handlers, i + 1, id)

getBindingOldest(obj) ==
  IF obj = Null THEN ThrowResult
  ELSE IF UuidOfObj(obj) = 0 THEN NullResult
  ELSE scanHandlersUp(_handlers2, 1, UuidOfObj(obj))

\* Store.getBinding( { __reactKeydownUUID } )
Store_getBinding(obj) ==
  IF obj = Null THEN ThrowResult
  ELSE IF UuidOfObj(obj) = 0 THEN NullResult
  ELSE scanHandlers2(_handlers2, Len(_handlers2), UuidOfObj(obj))

NoMatch == [threw |-> FALSE, kind |-> "null", fn |-> Null, instance |-> Null]
Throws == [threw |-> TRUE, kind |-> "throw", fn |-> Null, instance |-> Null]

\* the loop of Store.findBindingForEvent, from the top of the stack down
RECURSIVE findFrom(_, _)
findFrom(i, event) ==
  IF i = 0 THEN NoMatch
  ELSE LET instance == _instances2[i]
           bindings == Store_getBinding(instance)
       IN IF bindings.kind # "value" THEN Throws
          ELSE LET b == bindings.val[1] IN
               IF \/ allKeys(b.keySets)
                  \/ \E j \in 1..Len(b.keySets.sets) : matchKeys(b.keySets.sets[j], event)
               THEN [threw |-> FALSE, kind |-> "value", fn |-> b.fn, instance |-> instance]
               ELSE findFrom(i - 1, event)

Store_findBindingForEvent(event) == findFrom(Len(_instances2), event)

\* getInstances() returns the array itself
Store_getInstances == _instances2

\* the `size` property of an Array: there is none, the read yields undefined
size(array) == Undefined

\* isEmpty() is `!_instances2.size`
Store_isEmpty == IsNone(size(_instances2))

Store_setBinding(keys, fn, target) ==
  /\ Len(_handlers2) < MaxHandlers
  /\ LET keySets == IF keys # NoKeys THEN [all |-> FALSE, sets |-> parseKeys(keys)] ELSE ALL_KEYS
         fresh == uuidOf[target] = 0
         targetUuid == IF fresh THEN uuidCounter ELSE uuidOf[target]
     IN /\ uuidOf' = [uuidOf EXCEPT ![target] = targetUuid]
        /\ uuidCounter' = IF fresh THEN uuidCounter + 1 ELSE uuidCounter
        /\ _handlers2' = Append(_handlers2,
                                [targetUuid |-> targetUuid, keySets |-> keySets, fn |-> fn])
  /\ registered' = registered \cup {[keys |-> keys, fn |-> fn, target |-> target]}
  /\ slast' = [SRec("setBinding", NoArg, FALSE)
                  EXCEPT !.args = [keys |-> keys, fn |-> fn, target |-> target]]
  /\ UNCHANGED <<_instances2, deactivated>>

_resetStore ==
  /\ _handlers2' = <<>>
  /\ _instances2' = <<>>
  /\ registered' = {}
  /\ deactivated' = FALSE
  /\ slast' = SRec("reset", NoArg, FALSE)
  /\ UNCHANGED <<uuidOf, uuidCounter>>

\* the queries, as calls
FindBindingForEvent(event) ==
  /\ slast' = SRec("findBindingForEvent", NoArg, Store_findBindingForEvent(event).threw)
  /\ UNCHANGED <<_handlers2, _instances2, uuidOf, uuidCounter, deactivated, registered>>

GetBinding(obj) ==
  /\ slast' = SRec("getBinding", One(obj), Store_getBinding(obj).threw)
  /\ UNCHANGED <<_handlers2, _instances2, uuidOf, uuidCounter, deactivated, registered>>

SInit ==
  /\ _handlers2 = <<>>
  /\ _instances2 = <<>>
  /\ uuidOf = [c \in Classes |-> 0]
  /\ uuidCounter = 1
  /\ slast = SRec("init", NoArg, FALSE)
  /\ deactivated = FALSE
  /\ registered = {}

\* the instances the store is exercised with, one of each class
StoreInstances == {"x1", "y1"}

\* the arguments of Store.activate: an instance, null, or a list of instances
ActivateArgs ==
  {One(x) : x \in StoreInstances \cup {Null}}
    \cup {List(<<>>), List(<<"x1", "y1">>)}

(***************************************************************************)
(* Specifications                                                          *)
(***************************************************************************)
Init == LInit /\ SInit

\* the listeners module; the decorators register a class's bindings before any
\* of its instances mounts
Next ==
  \/ \E b \in BindingArgs : setBinding(b.keys, b.fn, b.target) /\ UNCHANGED svars
  \/ \E i \in Instances :
       HandlerIndex(_handlers, constructor(i)) # 0 /\ onMount(i) /\ UNCHANGED svars
  \/ \E i \in Instances : onUnmount(i) /\ UNCHANGED svars
  \/ TimerFire /\ UNCHANGED svars
  \/ \E e \in Elements : _handleClick(e) /\ UNCHANGED svars
  \/ \E e \in Elements : Focus(e) /\ UNCHANGED svars
  \/ \E ev \in Events : _handleKeyDown(ev) /\ UNCHANGED svars

Spec == Init /\ [][Next]_vars

\* the lifecycle of the instances: binding, mounting, unmounting, timers,
\* clicks and focus events (a keydown reads the focused pointer and leaves
\* every lifecycle variable alone)
LifeNext ==
  \/ \E b \in BindingArgs : setBinding(b.keys, b.fn, b.target) /\ UNCHANGED svars
  \/ \E i \in Instances :
       HandlerIndex(_handlers, constructor(i)) # 0 /\ onMount(i) /\ UNCHANGED svars
  \/ \E i \in Instances : onUnmount(i) /\ UNCHANGED svars
  \/ TimerFire /\ UNCHANGED svars
  \/ \E e \in Elements : _handleClick(e) /\ UNCHANGED svars
  \/ \E e \in Elements : Focus(e) /\ UNCHANGED svars

\* the event loop runs every pending timer callback
FairSpec == Init /\ [][LifeNext]_vars /\ WF_vars(TimerFire /\ UNCHANGED svars)

\* activation in both variants: the lifecycle of the listeners module, and
\* Store.activate of single instances once the listeners module has run a
\* deferred activation and has no timer pending
ActivateNext ==
  \/ \E b \in BindingArgs :
       slast.op = "init" /\ setBinding(b.keys, b.fn, b.target) /\ UNCHANGED svars
  \/ \E i \in Instances :
       /\ slast.op = "init"
       /\ HandlerIndex(_handlers, constructor(i)) # 0
       /\ onMount(i) /\ UNCHANGED svars
  \/ \E i \in Instances : slast.op = "init" /\ onUnmount(i) /\ UNCHANGED svars
  \/ slast.op = "init" /\ TimerFire /\ UNCHANGED svars
  \/ \E e \in Elements : slast.op = "init" /\ _handleClick(e) /\ UNCHANGED svars
  \/ \E e \in Elements : slast.op = "init" /\ Focus(e) /\ UNCHANGED svars
  \/ \E x \in StoreInstances :
       /\ last.op = "timer" /\ timers = <<>>
       /\ Store_activate(One(x)) /\ UNCHANGED lvars

ActivateSpec == Init /\ [][ActivateNext]_vars

\* the array-based store
StoreNext ==
  \/ \E a \in ActivateArgs : Store_activate(a) /\ UNCHANGED lvars
  \/ \E x \in StoreInstances : Store_deleteInstance(x) /\ UNCHANGED lvars
  \/ \E b \in BindingArgs : Store_setBinding(b.keys, b.fn, b.target) /\ UNCHANGED lvars
  \/ \E ev \in Events : FindBindingForEvent(ev) /\ UNCHANGED lvars
  \/ \E obj \in Classes \cup StoreInstances : GetBinding(obj) /\ UNCHANGED lvars
  \/ _resetStore /\ UNCHANGED lvars

StoreSpec == Init /\ [][StoreNext]_vars

\* the binding registries of both variants
BindNext ==
  \/ \E b \in BindingArgs : setBinding(b.keys, b.fn, b.target) /\ UNCHANGED svars
  \/ \E b \in BindingArgs : Store_setBinding(b.keys, b.fn, b.target) /\ UNCHANGED lvars
  \/ _resetStore /\ UNCHANGED lvars

BindSpec == Init /\ [][BindNext]_vars

(***************************************************************************)
(* Properties of the listeners module                                      *)
(***************************************************************************)
TextEntryTags == {"INPUT", "SELECT", "TEXTAREA"}

\* the bindings registered for the class of an instance
BindingsOf(instance) ==
  LET h == HandlerIndex(_handlers, constructor(instance))
  IN IF h = 0 THEN <<>> ELSE _handlers[h].bindings

Count(s, v) == Cardinality({i \in 1..Len(s) : s[i] = v})

\* a binding's key-set matches the event
Matches(b, event) == \E j \in 1..Len(b.keySets) : matchKeys(b.keySets[j], event)

\* the tracked instances in registry iteration order
RECURSIVE Flatten(_)
Flatten(hs) == IF hs = <<>> THEN <<>> ELSE Head(hs).instances \o Flatten(Tail(hs))

\* C1: after onUnmount(X) returned while X was the focused instance, the
\* focused pointer is none and no callback is invoked by a keydown, until a
\* click, a focus event, an onMount or the activation of another instance.
C1_UnmountSilences ==
  unmountedFocused # Null => (IsNone(_focusedInstance) /\ last.invoked = <<>>)

\* C2: a keydown on a text-entry element invokes no callback and leaves the
\* focused pointer and both listener flags as they were.
C2_TextEntryIgnored ==
  [][(last'.op = "keydown" /\ last'.event.tagName \in TextEntryTags)
       => (/\ last'.invoked = <<>>
           /\ _focusedInstance' = _focusedInstance
           /\ _clicksBound' = _clicksBound
           /\ _keysBound' = _keysBound)]_vars

\* a keydown on a text-entry element arrived while an instance with a binding
\* that matches the event's key was focused
C2_Witness ==
  /\ last.op = "keydown"
  /\ last.event.tagName = "TEXTAREA"
  /\ ~IsNone(_focusedInstance)
  /\ \E i \in 1..Len(BindingsOf(_focusedInstance)) :
       Matches(BindingsOf(_focusedInstance)[i], last.event)

\* C3: after a document click, the focused pointer is the first tracked
\* instance in registry order whose DOM subtree holds the target, with the
\* keydown listener attached; with no such instance the pointer is none and
\* the keydown listener is detached.
C3_ClickActivates ==
  last.op = "click" =>
    LET order == Flatten(_handlers)
        hits == {i \in 1..Len(order) : HasNode(order[i]) /\ last.target \in Subtree(order[i])}
    IN IF hits # {}
       THEN /\ _focusedInstance = order[CHOOSE i \in hits : \A j \in hits : i <= j]
            /\ _keysBound /\ docKeydown = 1
       ELSE /\ IsNone(_focusedInstance)
            /\ ~_keysBound /\ docKeydown = 0

\* C4: a keydown on an element that is not a text-entry element, while X is
\* focused, invokes the callback of every binding of X's class whose key-set
\* matches the event exactly once, with X as receiver, and no other callback.
C4_DispatchExact ==
  (last.op = "keydown" /\ last.event.tagName \notin TextEntryTags /\ ~IsNone(_focusedInstance))
    => LET bs == BindingsOf(_focusedInstance) IN
       /\ \A b \in 1..Len(bs) :
            Cardinality({n \in 1..Len(last.invoked) : last.invoked[n].binding = b})
              = IF Matches(bs[b], last.event) THEN 1 ELSE 0
       /\ \A n \in 1..Len(last.invoked) :
            /\ last.invoked[n].binding \in 1..Len(bs)
            /\ last.invoked[n].fn = bs[last.invoked[n].binding].fn
            /\ last.invoked[n].receiver = _focusedInstance

\* a keydown while the focused instance's class has a binding that matches the
\* event, whose callback ran, and one that does not
C4_Witness ==
  /\ last.op = "keydown"
  /\ last.event.tagName \notin TextEntryTags
  /\ ~IsNone(_focusedInstance)
  /\ Len(last.invoked) = 1
  /\ \E b \in 1..Len(BindingsOf(_focusedInstance)) :
       ~Matches(BindingsOf(_focusedInstance)[b], last.event)

\* C5: while no instance is tracked neither document listener is attached,
\* and neither listener is ever attached more than once.
C5_ListenersFollowTracking ==
  /\ docClick <= 1
  /\ docKeydown <= 1
  /\ Tracked = {} => (~_clicksBound /\ ~_keysBound /\ docClick = 0 /\ docKeydown = 0)

C12_TimerOverridesClick ==
  [][(last'.op = "timer" /\ timers # <<>> /\ _focusedInstance # Head(timers))
       => /\ mounted[Head(timers)] # "new"
          /\ _focusedInstance' = Head(timers)
          /\ _keysBound' /\ docKeydown' = 1]_vars

\* a click picked one instance and the timer of another instance ran after it
C12_Witness ==
  /\ last.op = "timer"
  /\ ~IsNone(last.clicked)
  /\ ~IsNone(_focusedInstance)
  /\ last.clicked # _focusedInstance

\* C13: every callback a keydown invokes is a binding of the class of the
\* instance that is focused at that moment, invoked on that instance; nothing is
\* invoked while the focused pointer is none, and nothing from another class.
C13_OnlyFocusedClassFires ==
  /\ IsNone(_focusedInstance) => last.invoked = <<>>
  /\ \A n \in 1..Len(last.invoked) :
       LET r == last.invoked[n]
           bs == BindingsOf(_focusedInstance)
       IN /\ last.op = "keydown"
          /\ r.receiver = _focusedInstance
          /\ HandlerIndex(_handlers, constructor(r.receiver)) # 0
          /\ r.binding \in 1..Len(bs)
          /\ bs[r.binding].fn = r.fn
          /\ Matches(bs[r.binding], last.event)

\* a callback ran for the focused instance on a key that is bound, with other
\* key-sets, for another class too
C13_Witness ==
  /\ last.op = "keydown"
  /\ last.invoked # <<>>
  /\ Len(_handlers) = 2
  /\ Len(BindingsOf(_focusedInstance)) = 1
  /\ \E i \in Instances :
       /\ constructor(i) # constructor(_focusedInstance)
       /\ mounted[i] = "mounted"
       /\ BindingsOf(i) # BindingsOf(_focusedInstance)

\* C14: the deferred activation of an instance that no handler tracks (it was
\* unmounted meanwhile) makes it the focused instance; Store.activate(x) for an
\* x that is not in the stack puts x on top of the stack and keeps the rest.
C14_ActivateUntracked ==
  [][/\ (last'.op = "timer" /\ timers # <<>> /\ Head(timers) \notin Tracked)
        => (_focusedInstance' = Head(timers) /\ _keysBound' /\ docKeydown' = 1)
     /\ (slast'.op = "activate" /\ ~slast'.arg.isArray /\ ~IsNone(slast'.arg.val)
           /\ ~InSeq(_instances2, slast'.arg.val))
        => _instances2' = Append(_instances2, slast'.arg.val)]_vars

\* the listeners module focused an instance it no longer tracks, and the store
\* put an instance on top of a stack that did not hold it
C14_Witness ==
  /\ last.op = "timer"
  /\ ~IsNone(_focusedInstance)
  /\ _focusedInstance \notin Tracked
  /\ slast.op = "activate"
  /\ Len(_instances2) = 2
  /\ _instances2[1] # _instances2[2]
  /\ _instances2[2] = slast.arg.val

\* C16: a binding registered with keys absent matches every keydown event, and
\* while an instance of its class is focused a keydown on an element that is not
\* a text-entry element invokes its callback once, whatever the key and modifiers.
C16_NoKeysMatchesAny ==
  [][/\ (last'.op = "setBinding" /\ last'.args.keys = NoKeys)
        => LET bs == _handlers'[HandlerIndex(_handlers', last'.args.target)].bindings
           IN /\ bs[Len(bs)].fn = last'.args.fn
              /\ \A ev \in Events : Matches(bs[Len(bs)], ev)
     /\ (last'.op = "keydown" /\ last'.event.tagName \notin TextEntryTags
           /\ ~IsNone(_focusedInstance))
        => LET bs == BindingsOf(_focusedInstance)
           IN \A b \in 1..Len(bs) :
                (\A ev \in Events : Matches(bs[b], ev))
                  => Cardinality({n \in 1..Len(last'.invoked) :
                                    /\ last'.invoked[n].binding = b
                                    /\ last'.invoked[n].fn = bs[b].fn}) = 1]_vars

\* a keydown with a key and a modifier that no keyed binding names invoked the
\* callback of a binding registered without keys
C16_Witness ==
  /\ last.op = "keydown"
  /\ last.event.which = 66 /\ last.event.mods = {"ctrl"}
  /\ ~IsNone(_focusedInstance)
  /\ Len(last.invoked) = 1
  /\ BindingsOf(_focusedInstance)[last.invoked[1].binding].keySets = <<NullKeySet>>

\* C15: no public operation and no document event handler of the listeners
\* module raises: onMount, onUnmount, the click handler and the keydown handler
\* all complete normally, also for an instance without a DOM node.
C15_NothingRaises ==
  last.op \in {"onMount", "onUnmount", "click", "keydown"} => ~last.threw

\* C19: the keydown listener is attached (once) exactly while the focused
\* pointer is an instance, the keys-bound flag says so, and a keydown handler
\* has run only with the focused pointer set.
C19_KeysBoundIffFocused ==
  /\ _keysBound = ~IsNone(_focusedInstance)
  /\ docKeydown = (IF IsNone(_focusedInstance) THEN 0 ELSE 1)
  /\ last.op = "keydown" => ~IsNone(_focusedInstance)

\* the focused instance was unmounted: the pointer was cleared and the keydown
\* listener removed
C19_Witness ==
  /\ last.op = "onUnmount"
  /\ unmountedFocused # Null
  /\ IsNone(_focusedInstance)
  /\ ~_keysBound
  /\ docKeydown = 0

\* position of an instance in the order of onMount calls
MountPos(i) == CHOOSE k \in 1..Len(mountOrder) : mountOrder[k] = i

\* the mounted instances whose DOM subtree holds the element
MountedAround(e) == {i \in Instances : mounted[i] = "mounted" /\ e \in Subtree(i)}

\* C20 as stated: after a focus event on an element, the handler of every
\* mounted instance whose subtree holds the element has run, the later mounted
\* before the earlier mounted, and the instance that mounted first is focused.
C20_FirstMountedFocused ==
  last.op = "focus" =>
    LET e == last.target
        c == onfocus[e]
    IN /\ \A i \in MountedAround(e) : InSeq(c, i)
       /\ \A k, m \in 1..Len(c) :
            (k < m /\ {c[k], c[m]} \subseteq MountedAround(e)) => MountPos(c[k]) > MountPos(c[m])
       /\ \A i \in MountedAround(e) :
            (\A j \in MountedAround(e) : MountPos(i) <= MountPos(j)) => _focusedInstance = i

\* the element was in the DOM under the node of the instance when it mounted
FoundAtMount(i, e) ==
  /\ HasNode(i)
  /\ e \in Subtree(i)
  /\ IF e = Body THEN TRUE ELSE mounted'[owner(e)] = "mounted"

\* C20 amended: onMount(X) puts X's handler in front of the handlers of every
\* element it finds under X's node, nothing else changes or removes a handler
\* (not even onUnmount), so the handlers of an element are those of the
\* instances that found it when they mounted, latest mount first; a focus event
\* runs them in that order and leaves the earliest mounted of them focused.
C20_FocusChain ==
  [][/\ last'.op = "onMount"
        => LET X == mountOrder'[Len(mountOrder')] IN
           \A e \in Elements :
             onfocus'[e] = IF FoundAtMount(X, e) THEN <<X>> \o onfocus[e] ELSE onfocus[e]
     /\ last'.op # "onMount" => onfocus' = onfocus
     /\ \A e \in Elements : \A k, m \in 1..Len(onfocus[e]) :
          k < m => MountPos(onfocus[e][k]) > MountPos(onfocus[e][m])
     /\ last'.op = "focus"
        => LET c == onfocus[last'.target] IN
           /\ c # <<>>
           /\ _focusedInstance' = c[Len(c)]
           /\ _keysBound' /\ docKeydown' = 1]_vars

\* a focus event ran the handlers of two instances, the first of them of an
\* instance that has unmounted, and left the earlier mounted one focused
C20_Witness ==
  /\ last.op = "focus"
  /\ Len(onfocus[last.target]) = 2
  /\ mounted[onfocus[last.target][1]] = "gone"
  /\ _focusedInstance = onfocus[last.target][2]
  /\ MountPos(onfocus[last.target][2]) < MountPos(onfocus[last.target][1])

(***************************************************************************)
(* Properties of the array-based store                                     *)
(***************************************************************************)

\* the key-sets Store.setBinding stores for a key specification
StoredKeySets(keys) ==
  IF keys = NoKeys THEN ALL_KEYS ELSE [all |-> FALSE, sets |-> parseKeys(keys)]

\* C6: Store.activate(x) of a single instance leaves x on top of the stack,
\* exactly once, and every other instance in the stack, in the same order.
C6_ActivateMovesToTop ==
  [][(slast'.op = "activate" /\ ~slast'.arg.isArray /\ slast'.arg.val # Null)
       => LET x == slast'.arg.val IN
          /\ _instances2'[Len(_instances2')] = x
          /\ Count(_instances2', x) = 1
          /\ Without(_instances2', x) = Without(_instances2, x)]_vars

\* C7: Store.deleteInstance(x) completes normally and removes x from the
\* stack, leaving the other instances in it in the same order.
C7_DeleteRemoves ==
  [][slast'.op = "deleteInstance"
       => LET x == slast'.arg.val IN
          /\ ~slast'.threw
          /\ ~InSeq(_instances2', x)
          /\ _instances2' = Without(_instances2, x)]_vars

\* C8: after a deactivating Store.activate (an empty list, or null) and until
\* the next activation of an instance, Store.findBindingForEvent returns null
\* for every event, without raising.
C8_DeactivatedFindsNothing ==
  deactivated => \A ev \in Events : Store_findBindingForEvent(ev) = NoMatch

\* C9: Store.getBinding for a target returns every (key-set, callback) pair
\* registered for it since the store was reset.
C9_GetBindingReturnsAll ==
  \A r \in {q \in registered : q.keys # NoKeys} :
    LET res == Store_getBinding(r.target) IN
    /\ res.kind = "value"
    /\ \E k \in 1..Len(res.val) :
         res.val[k] = [keySets |-> StoredKeySets(r.keys), fn |-> r.fn]

\* a registered setBinding call matches the event
RegMatches(r, event) ==
  \/ r.keys = NoKeys
  \/ \E j \in 1..Len(r.keys) : matchKeys(parseKeys(r.keys)[j], event)

\* positions of the stack whose instance has a registered binding matching the event
Candidates(event) ==
  {i \in 1..Len(_instances2) :
     /\ ~IsNone(_instances2[i])
     /\ \E r \in registered :
          r.target = constructor(_instances2[i]) /\ RegMatches(r, event)}

\* C17: Store.findBindingForEvent returns the pair of the instance nearest the
\* top of the stack that has a binding matching the event, with the callback of
\* such a binding, and null when no instance in the stack has one.
C17_TopmostMatchWins ==
  \A ev \in Events :
    LET res == Store_findBindingForEvent(ev) IN
    IF Candidates(ev) = {} THEN res = NoMatch
    ELSE LET top == CHOOSE i \in Candidates(ev) : \A j \in Candidates(ev) : j <= i IN
         /\ res.kind = "value"
         /\ res.instance = _instances2[top]
         /\ \E r \in registered :
              /\ r.target = constructor(res.instance)
              /\ r.fn = res.fn
              /\ RegMatches(r, ev)

\* C18: Store.isEmpty() is true exactly when Store.getInstances() holds no
\* instance.
C18_IsEmptyReflectsSize ==
  Store_isEmpty = (Len(Store_getInstances) = 0)

(***************************************************************************)
(* Properties of both binding registries                                   *)
(***************************************************************************)
\* C10: immediately after setBinding({keys, fn, target}), getBinding for the
\* same identity (the target in the listeners module; the target or any
\* instance carrying its identifier in the store) returns an entry pairing
\* parseKeys(keys) with fn.
C10_SetThenGet ==
  /\ (last.op = "setBinding" /\ last.args.keys # NoKeys)
       => LET h == HandlerIndex(_handlers, last.args.target) IN
          /\ h # 0
          /\ \E k \in 1..Len(_handlers[h].bindings) :
               _handlers[h].bindings[k]
                 = [keySets |-> parseKeys(last.args.keys), fn |-> last.args.fn]
  /\ (slast.op = "setBinding" /\ slast.args.keys # NoKeys)
       => \A obj \in {slast.args.target}
                       \cup {i \in Instances : constructor(i) = slast.args.target} :
            LET res == Store_getBinding(obj) IN
            /\ res.kind = "value"
            /\ \E k \in 1..Len(res.val) :
                 res.val[k] = [keySets |-> [all |-> FALSE, sets |-> parseKeys(slast.args.keys)],
                               fn |-> slast.args.fn]

\* both registries hold two bindings of one class with different keys and
\* callbacks, each registered by a setBinding that has just returned
C10_Witness ==
  /\ last.op = "setBinding" /\ last.args.keys # NoKeys
  /\ slast.op = "setBinding" /\ slast.args.keys # NoKeys
  /\ Len(_handlers) = 1 /\ Len(_handlers[1].bindings) = 2
  /\ _handlers[1].bindings[1].fn # _handlers[1].bindings[2].fn
  /\ Len(_handlers2) = 2
  /\ _handlers2[1].targetUuid = _handlers2[2].targetUuid
  /\ _handlers2[1].fn # _handlers2[2].fn

====
